---- MODULE Spec2Model ----
(***************************************************************************)
(* Seat inventory of the bus booking router of backend/server.py: the      *)
(* bus_seat_availability ledger, lock_seats, create_bus_booking,           *)
(* cancel_bus_booking and the seat-map read get_seat_layout.               *)
(*                                                                         *)
(* Times are seconds on one timeline.  The ledger's locked_until column is *)
(* declared DateTime(timezone=True), so a stored expiry is an aware        *)
(* instant and is compared with datetime.now(timezone.utc).                *)
(*                                                                         *)
(* Query.first() has no ORDER BY: when several rows match, the row it      *)
(* returns is any one of them.  A handler's queries are answered by one    *)
(* choice function over the committed rows (the session is created with    *)
(* autoflush=False, so a handler's own pending rows are never seen by its  *)
(* later queries, and a row loaded twice is the same session object).      *)
(***************************************************************************)
EXTENDS Integers, Sequences, FiniteSets, TLC

VARIABLES
    now,        \* the wall clock, in seconds
    ledger,     \* committed rows of bus_seat_availability
    nextRowId,  \* autoincrement counter of bus_seat_availability.id
    bookings,   \* committed rows of bus_bookings with their bus_passengers
    lastOp,     \* the request handled by the last step and its response
    served,     \* the number of requests handled so far
    procs,      \* the in-flight requests of the interleaved specification
    basePrice,      \* bus_schedules.base_price of every schedule
    priceModifier   \* bus_seats.price_modifier of every seat

\* the price columns
prices == <<basePrice, priceModifier>>

vars == <<now, ledger, nextRowId, bookings, lastOp, served, procs, prices>>

----------------------------------------------------------------------------
(* Bounds of the model *)

MaxRequests == 3

----------------------------------------------------------------------------
(* Reference data and request inputs *)

Users == {"u1", "u2"}

\* the users of the concurrent requests
Racers == {"u1", "u2", "u3"}

Schedules == {1, 2}
NoSuchSchedule == 9

Dates == {"d1", "d2"}


\* the instants at which requests arrive: the start, and the expiry of a
\* lock taken at the start; ClockPoints adds the second before that expiry
TimePoints == {0, 300}
ClockPoints == {0, 299, 300}

\* seats 1, 2 and 4 belong to bus 1, seat 3 to bus 2; no seat has id 9
SeatBus == (1 :> 1) @@ (2 :> 1) @@ (3 :> 2) @@ (4 :> 1)
Seats == DOMAIN SeatBus

\* bus_seats.is_active: seat 4 is out of service
SeatActive == (1 :> 1) @@ (2 :> 1) @@ (3 :> 1) @@ (4 :> 0)

\* the seats a query filtered on (bus_id, is_active == 1) returns
ActiveSeats(bus) == {x \in Seats : SeatBus[x] = bus /\ SeatActive[x] = 1}
NoSuchSeat == 9

\* both schedules run bus 1
ScheduleBus == (1 :> 1) @@ (2 :> 1)

\* amounts are in hundredths of the currency unit; the prices the tables
\* are seeded with
BasePrice == (1 :> 50000) @@ (2 :> 40000)
PriceModifier == (1 :> 5000) @@ (2 :> 0) @@ (3 :> 5000) @@ (4 :> 0)

\* the departure instant of a schedule on a journey date
JourneyDt(s, d) ==
    IF s = 1 /\ d = "d1" THEN 24 * 3600 + 300
    ELSE IF s = 1 /\ d = "d2" THEN 12 * 3600 + 300
    ELSE 6 * 3600 + 300

\* generate_pnr draws a random code; a code is modelled by a number, and a
\* draw either repeats the code of an existing booking (when repeats are
\* drawn) or is a new code
PNRs(bks, repeats) ==
    IF repeats THEN 1..(Len(bks) + 1) ELSE {Len(bks) + 1}

LOCK_TTL == 300

\* nullable columns
NoUser == "none"
NoTime == -1
NoBooking == 0

\* the requests for schedule 1 on d1 that name seats of its bus: one seat,
\* two seats, and one seat twice
SeatRequests == {<<1, "d1", l>> : l \in {<<1>>, <<2>>, <<1, 2>>, <<1, 1>>}}

\* the requests for seat 1: alone, with seat 2, and twice
ClockRequests == {<<1, "d1", l>> : l \in {<<1>>, <<1, 2>>, <<1, 1>>}}

Range(f) == {f[i] : i \in DOMAIN f}

----------------------------------------------------------------------------
(* bus_seat_availability *)

Row(id, s, seat, d, st, by, until, b) ==
    [id |-> id, schedule_id |-> s, seat_id |-> seat, journey_date |-> d,
     status |-> st, locked_by |-> by, locked_until |-> until, booking_id |-> b]

NoRow == Row(0, 0, 0, "none", "none", NoUser, NoTime, NoBooking)

\* Match without the filter on journey_date
MatchAnyDate(rows, s, seat, d) ==
    {r \in rows : r.schedule_id = s /\ r.seat_id = seat}

\* the rows a query filtered on (schedule_id, seat_id, journey_date) matches
Match(rows, s, seat, d) ==
    {r \in rows : r.schedule_id = s /\ r.seat_id = seat /\ r.journey_date = d}

\* the answers .first() can give to the per-seat queries of one request
FirstChoices(rows, s, d, seatSet) ==
    {f \in [seatSet -> rows \cup {NoRow}] :
        \A seat \in seatSet :
            IF Match(rows, s, seat, d) = {} THEN f[seat] = NoRow
            ELSE f[seat] \in Match(rows, s, seat, d)}

\* the foreign keys of bus_seat_availability
ForeignKeysOk(s, seat) == s \in Schedules /\ seat \in Seats

----------------------------------------------------------------------------
(* The SQLAlchemy session of one request *)

\* dirty: the loaded rows the handler assigned to, as loaded and as they are
\* now; new: the rows passed to db.add, in order; deleted: ids given to
\* db.delete
EmptySession == [dirty |-> <<>>, new |-> <<>>, deleted |-> {}]

DirtyIds(sess) == {sess.dirty[i].loaded.id : i \in DOMAIN sess.dirty}

\* the session object of a row the query returned: the identity map hands
\* back the object already held, with the handler's assignments on it
SessionObject(sess, loaded) ==
    IF loaded.id \in DirtyIds(sess)
    THEN (CHOOSE e \in Range(sess.dirty) : e.loaded.id = loaded.id).cur
    ELSE loaded

Assign(sess, loaded, cur) ==
    IF loaded.id \in DirtyIds(sess)
    THEN [sess EXCEPT !.dirty =
            [i \in DOMAIN sess.dirty |->
                IF sess.dirty[i].loaded.id = loaded.id
                THEN [loaded |-> loaded, cur |-> cur]
                ELSE sess.dirty[i]]]
    ELSE [sess EXCEPT !.dirty = Append(@, [loaded |-> loaded, cur |-> cur])]

\* UPDATE writes the columns whose value the handler changed
ApplyUpdate(dbrow, e) ==
    [c \in DOMAIN dbrow |->
        IF e.cur[c] # e.loaded[c] THEN e.cur[c] ELSE dbrow[c]]

\* an UPDATE by primary key that matches no row is an error; a DELETE that
\* matches no row only gives a warning
Stale(rows, sess) ==
    \E id \in DirtyIds(sess) : \A r \in rows : r.id # id

Flush(rows, sess, firstId) ==
    LET kept == {r \in rows : r.id \notin sess.deleted}
        updated == {IF r.id \in DirtyIds(sess)
                    THEN ApplyUpdate(r, CHOOSE e \in Range(sess.dirty) :
                                            e.loaded.id = r.id)
                    ELSE r : r \in kept}
        inserted == {[sess.new[i] EXCEPT !.id = firstId + i - 1] :
                        i \in DOMAIN sess.new}
    IN  updated \cup inserted

\* db.commit(): a foreign key violation or a stale row rolls back
CommitFails(rows, sess) ==
    \/ \E i \in DOMAIN sess.new :
            ~ForeignKeysOk(sess.new[i].schedule_id, sess.new[i].seat_id)
    \/ Stale(rows, sess)

\* the response of a handler whose checks gave error
Response(rows, sess, error) ==
    IF error = "ok" /\ CommitFails(rows, sess) THEN "integrity_error"
    ELSE error

\* Committed with the pending writes of a refused request written
CommittedOnError(rows, sess, firstId, result) == Flush(rows, sess, firstId)

\* the committed rows after the request: a handler that raises never
\* reaches db.commit(), and get_db closes its session, which discards the
\* pending writes
Committed(rows, sess, firstId, result) ==
    IF result = "ok" THEN Flush(rows, sess, firstId) ELSE rows

\* CommittedBookings with a flushed bus_bookings row kept after a failure
CommittedBookingsOnError(bks, booking, result) ==
    IF booking # <<>> THEN Append(bks, booking) ELSE bks

\* the committed bus_bookings rows after a create_bus_booking: the flushed
\* row stays only when the handler reaches db.commit()
CommittedBookings(bks, booking, result) ==
    IF result = "ok" THEN Append(bks, booking) ELSE bks

\* the autoincrement counter after the rows were written
NextRowId(rows, firstId) ==
    firstId + Cardinality({r \in rows : r.id >= firstId})

----------------------------------------------------------------------------
(* lock_seats *)

\* LockCheck without the test for a booked seat
LockCheckIgnoringBooked(existing, user, t) ==
    IF /\ existing.status = "locked"
       /\ existing.locked_until > t
       /\ existing.locked_by # user
    THEN "seat_locked"
    ELSE "ok"

\* LockCheck holding a lock through the instant of its expiry
LockCheckInclusive(existing, user, t) ==
    IF existing.status = "booked" THEN "seat_booked"
    ELSE IF /\ existing.status = "locked"
            /\ existing.locked_until >= t
            /\ existing.locked_by # user
         THEN "seat_locked"
         ELSE "ok"

\* LockCheck refusing an unexpired lock whoever holds it
LockCheckAnyHolder(existing, user, t) ==
    IF existing.status = "booked" THEN "seat_booked"
    ELSE IF /\ existing.status = "locked"
            /\ existing.locked_until > t
         THEN "seat_locked"
         ELSE "ok"

LockCheck(existing, user, t) ==
    IF existing.status = "booked" THEN "seat_booked"
    ELSE IF /\ existing.status = "locked"
            /\ existing.locked_until > t
            /\ existing.locked_by # user
         THEN "seat_locked"
         ELSE "ok"

RECURSIVE LockLoop(_, _, _, _, _, _, _, _, _)
LockLoop(f, s, d, seats, i, user, t, lock_until, sess) ==
    IF i > Len(seats) THEN [error |-> "ok", sess |-> sess]
    ELSE
        LET seat == seats[i]
            loaded == f[seat]
            existing == SessionObject(sess, loaded)
        IN  IF loaded # NoRow
            THEN IF LockCheck(existing, user, t) # "ok"
                 THEN [error |-> LockCheck(existing, user, t),
                       sess |-> sess]
                 ELSE LockLoop(f, s, d, seats, i + 1, user, t, lock_until,
                        Assign(sess, loaded,
                            [existing EXCEPT !.status = "locked",
                                             !.locked_by = user,
                                             !.locked_until = lock_until]))
            ELSE LockLoop(f, s, d, seats, i + 1, user, t, lock_until,
                    [sess EXCEPT !.new = Append(@,
                        Row(0, s, seat, d, "locked", user, lock_until,
                            NoBooking))])

lock_seats(f, s, d, seats, user, t) ==
    LockLoop(f, s, d, seats, 1, user, t, t + LOCK_TTL, EmptySession)

----------------------------------------------------------------------------
(* bus_bookings and bus_passengers *)

Passenger(seat, price) == [seat_id |-> seat, seat_price |-> price]

Booking(id, user, s, d, pnr, total, passengers) ==
    [id |-> id, user_id |-> user, schedule_id |-> s, journey_date |-> d,
     pnr |-> pnr, booking_status |-> "confirmed", total_amount |-> total,
     discount_amount |-> 0, final_amount |-> total,
     passengers |-> passengers, cancelled_at |-> NoTime,
     refund_amount |-> NoTime, refund_status |-> "none"]

\* SumPrices without the seats' price modifiers
RECURSIVE SumBasePrices(_, _, _)
SumBasePrices(s, seats, i) ==
    IF i > Len(seats) THEN 0
    ELSE basePrice[s] + SumBasePrices(s, seats, i + 1)

\* the total of the seat prices, as the first loop over the passengers adds
\* them up
RECURSIVE SumPrices(_, _, _)
SumPrices(s, seats, i) ==
    IF i > Len(seats) THEN 0
    ELSE basePrice[s] + priceModifier[seats[i]] + SumPrices(s, seats, i + 1)

----------------------------------------------------------------------------
(* create_bus_booking *)

\* Booked without the booking's id
BookedWithoutBookingId(availability, id) ==
    [availability EXCEPT !.status = "booked",
                         !.locked_by = NoUser,
                         !.locked_until = NoTime]

\* Booked leaving the lock columns as they were
BookedKeepingLock(availability, id) ==
    [availability EXCEPT !.status = "booked", !.booking_id = id]

\* the assignments that mark the availability row found for a seat as booked
Booked(availability, id) ==
    [availability EXCEPT !.status = "booked",
                         !.booking_id = id,
                         !.locked_by = NoUser,
                         !.locked_until = NoTime]

\* the passenger loop: one bus_passengers row per passenger, and the seat's
\* availability row set to booked, or a new booked row when none is found
RECURSIVE BookLoop(_, _, _, _, _, _, _, _)
BookLoop(f, s, d, seats, i, id, sess, passengers) ==
    IF i > Len(seats) THEN [sess |-> sess, passengers |-> passengers]
    ELSE
        LET seat == seats[i]
            seat_price == basePrice[s] + priceModifier[seat]
            loaded == f[seat]
            availability == SessionObject(sess, loaded)
            added == Append(passengers, Passenger(seat, seat_price))
        IN  IF loaded # NoRow
            THEN BookLoop(f, s, d, seats, i + 1, id,
                    Assign(sess, loaded, Booked(availability, id)),
                    added)
            ELSE BookLoop(f, s, d, seats, i + 1, id,
                    [sess EXCEPT !.new = Append(@,
                        Row(0, s, seat, d, "booked", NoUser, NoTime, id))],
                    added)

\* BookingError without the unique index on bus_bookings.pnr
BookingErrorWithoutUnique(s, seats, pnr, bks) ==
    IF s \notin Schedules THEN "schedule_not_found"
    ELSE IF \E i \in DOMAIN seats : seats[i] \notin Seats THEN "invalid_seat"
    ELSE "ok"

\* the checks made before the passenger loop
BookingError(s, seats, pnr, bks) ==
    IF s \notin Schedules THEN "schedule_not_found"
    ELSE IF \E i \in DOMAIN seats : seats[i] \notin Seats THEN "invalid_seat"
    ELSE IF \E i \in DOMAIN bks : bks[i].pnr = pnr THEN "integrity_error"
    ELSE "ok"

\* the handler up to db.commit(): booking is the bus_bookings row it has
\* added, which is pending when the flush of that row raises
create_bus_booking(f, s, d, seats, user, pnr, id, bks) ==
    LET error == BookingError(s, seats, pnr, bks)
    IN  IF error = "integrity_error"
        THEN [error |-> error, sess |-> EmptySession,
              booking |-> Booking(id, user, s, d, pnr,
                                  SumPrices(s, seats, 1), <<>>)]
        ELSE IF error # "ok"
        THEN [error |-> error, sess |-> EmptySession, booking |-> <<>>]
        ELSE LET loop == BookLoop(f, s, d, seats, 1, id, EmptySession, <<>>)
             IN  [error |-> "ok", sess |-> loop.sess,
                  booking |-> Booking(id, user, s, d, pnr,
                                      SumPrices(s, seats, 1),
                                      loop.passengers)]

----------------------------------------------------------------------------
(* cancel_bus_booking *)

\* RefundPercentage with the lower bound of each bracket inclusive
RefundPercentageInclusive(seconds_before) ==
    IF seconds_before >= 24 * 3600 THEN 90
    ELSE IF seconds_before >= 12 * 3600 THEN 50
    ELSE IF seconds_before >= 6 * 3600 THEN 25
    ELSE 0

RefundPercentage(seconds_before) ==
    IF seconds_before > 24 * 3600 THEN 90
    ELSE IF seconds_before > 12 * 3600 THEN 50
    ELSE IF seconds_before > 6 * 3600 THEN 25
    ELSE 0

\* MatchBooked without the filter on booking_id
MatchBookedAnyBooking(rows, b, seat) ==
    {r \in rows : r.seat_id = seat}

\* the rows a query filtered on (booking_id, seat_id) matches
MatchBooked(rows, b, seat) ==
    {r \in rows : r.booking_id = b /\ r.seat_id = seat}

ReleaseChoices(rows, b, seatSet) ==
    {g \in [seatSet -> rows \cup {NoRow}] :
        \A seat \in seatSet :
            IF MatchBooked(rows, b, seat) = {} THEN g[seat] = NoRow
            ELSE g[seat] \in MatchBooked(rows, b, seat)}

\* CancelError finding the booking whoever owns it
CancelErrorAnyUser(bks, id, user) ==
    IF id \notin DOMAIN bks THEN "booking_not_found"
    ELSE IF bks[id].booking_status = "cancelled" THEN "already_cancelled"
    ELSE IF bks[id].booking_status = "completed" THEN "journey_completed"
    ELSE "ok"

\* CancelError without the test for a cancelled booking
CancelErrorIgnoringCancelled(bks, id, user) ==
    IF id \notin DOMAIN bks \/ bks[id].user_id # user
    THEN "booking_not_found"
    ELSE IF bks[id].booking_status = "completed" THEN "journey_completed"
    ELSE "ok"

CancelError(bks, id, user) ==
    IF id \notin DOMAIN bks \/ bks[id].user_id # user
    THEN "booking_not_found"
    ELSE IF bks[id].booking_status = "cancelled" THEN "already_cancelled"
    ELSE IF bks[id].booking_status = "completed" THEN "journey_completed"
    ELSE "ok"

\* RefundStatus that reports every cancellation as refunded
RefundStatusProcessed(refund_amount) == "processed"

RefundStatus(refund_amount) ==
    IF refund_amount > 0 THEN "processed" ELSE "no_refund"

\* Cancelled with the status the payment takes
CancelledAsRefunded(booking, t, refund_amount) ==
    [booking EXCEPT !.booking_status = "refunded",
                    !.cancelled_at = t,
                    !.refund_amount = refund_amount,
                    !.refund_status = RefundStatus(refund_amount)]

\* Cancelled with the booking's passengers deleted
CancelledWithoutPassengers(booking, t, refund_amount) ==
    [booking EXCEPT !.booking_status = "cancelled",
                    !.cancelled_at = t,
                    !.refund_amount = refund_amount,
                    !.refund_status = RefundStatus(refund_amount),
                    !.passengers = <<>>]

\* the assignments to the bus_bookings row
Cancelled(booking, t, refund_amount) ==
    [booking EXCEPT !.booking_status = "cancelled",
                    !.cancelled_at = t,
                    !.refund_amount = refund_amount,
                    !.refund_status = RefundStatus(refund_amount)]

\* cancel_bus_booking refusing a booking whose bus has departed
cancel_bus_booking_before_departure(g, bks, id, user, t) ==
    LET error == CancelError(bks, id, user)
    IN  IF error # "ok"
        THEN [error |-> error, sess |-> EmptySession, booking |-> <<>>,
              refund_percentage |-> 0]
        ELSE IF JourneyDt(bks[id].schedule_id, bks[id].journey_date) < t
        THEN [error |-> "journey_completed", sess |-> EmptySession,
              booking |-> <<>>, refund_percentage |-> 0]
        ELSE
            LET booking == bks[id]
                pct == RefundPercentage(
                         JourneyDt(booking.schedule_id, booking.journey_date)
                         - t)
                refund_amount == (booking.final_amount * pct) \div 100
                released == {g[booking.passengers[i].seat_id].id :
                                i \in DOMAIN booking.passengers} \ {NoRow.id}
            IN  [error |-> "ok",
                 sess |-> [EmptySession EXCEPT !.deleted = released],
                 booking |-> Cancelled(booking, t, refund_amount),
                 refund_percentage |-> pct]

cancel_bus_booking(g, bks, id, user, t) ==
    LET error == CancelError(bks, id, user)
    IN  IF error # "ok"
        THEN [error |-> error, sess |-> EmptySession, booking |-> <<>>,
              refund_percentage |-> 0]
        ELSE
            LET booking == bks[id]
                pct == RefundPercentage(
                         JourneyDt(booking.schedule_id, booking.journey_date)
                         - t)
                refund_amount == (booking.final_amount * pct) \div 100
                released == {g[booking.passengers[i].seat_id].id :
                                i \in DOMAIN booking.passengers} \ {NoRow.id}
            IN  [error |-> "ok",
                 sess |-> [EmptySession EXCEPT !.deleted = released],
                 booking |-> Cancelled(booking, t, refund_amount),
                 refund_percentage |-> pct]

----------------------------------------------------------------------------
(* get_seat_layout *)

\* SeatStatus showing a lock through the instant of its expiry
SeatStatusInclusive(availability, t) ==
    IF availability = NoRow THEN "available"
    ELSE IF availability.status = "booked" THEN "booked"
    ELSE IF availability.status = "locked"
         THEN IF availability.locked_until # NoTime
              THEN IF availability.locked_until >= t THEN "locked"
                   ELSE "available"
              ELSE "available"
    ELSE IF availability.status = "blocked" THEN "blocked"
    ELSE "available"

\* SeatStatus showing a blocked seat as available
SeatStatusIgnoringBlocked(availability, t) ==
    IF availability = NoRow THEN "available"
    ELSE IF availability.status = "booked" THEN "booked"
    ELSE IF availability.status = "locked"
         THEN IF availability.locked_until # NoTime
              THEN IF availability.locked_until > t THEN "locked"
                   ELSE "available"
              ELSE "available"
    ELSE "available"

\* the status the seat map shows for a seat whose query returned availability
SeatStatus(availability, t) ==
    IF availability = NoRow THEN "available"
    ELSE IF availability.status = "booked" THEN "booked"
    ELSE IF availability.status = "locked"
         THEN IF availability.locked_until # NoTime
              THEN IF availability.locked_until > t THEN "locked"
                   ELSE "available"
              ELSE "available"
    ELSE IF availability.status = "blocked" THEN "blocked"
    ELSE "available"

\* the active seats of the schedule's bus, each with its status
get_seat_layout(f, s, t) ==
    [seat \in ActiveSeats(ScheduleBus[s]) |-> SeatStatus(f[seat], t)]

----------------------------------------------------------------------------
(* search_buses *)

\* available_seats of a schedule in the search result: the active seats of
\* its bus less the rows of the schedule and date that are booked or locked
AvailableSeats(rows, s, d, t) ==
    Cardinality(ActiveSeats(ScheduleBus[s]))
    - Cardinality({r \in rows :
        /\ r.schedule_id = s
        /\ r.journey_date = d
        /\ r.status \in {"booked", "locked"}})

----------------------------------------------------------------------------
(* Requests and responses *)

\* a request and its response: expires_at of lock_seats, booking_id and the
\* PNR drawn of create_bus_booking, refund_percentage of cancel_bus_booking,
\* statuses of get_seat_layout, available_seats of search_buses; found is
\* what the handler's availability queries returned
Op(op, user, s, d, seats, result, expires, b) ==
    [op |-> op, user |-> user, schedule_id |-> s, journey_date |-> d,
     seats |-> seats, result |-> result, expires_at |-> expires,
     refund_percentage |-> 0, booking_id |-> b, pnr |-> 0,
     statuses |-> <<>>, found |-> <<>>, available_seats |-> 0]

NoOp == Op("none", NoUser, 0, "none", <<>>, "none", NoTime, NoBooking)

\* a request in flight: pc is the handler's position, sess its session,
\* booking the bus_bookings row it has flushed or assigned to, locked,
\* booked and cancelled the responses of its lock_seats, create_bus_booking
\* and cancel_bus_booking
Proc(pc, sess, booking, locked, booked) ==
    [pc |-> pc, sess |-> sess, booking |-> booking, locked |-> locked,
     booked |-> booked, cancelled |-> "pending"]

Idle == Proc("start", EmptySession, <<>>, "pending", "pending")

Init ==
    /\ now = 0
    /\ ledger = {}
    /\ nextRowId = 1
    /\ bookings = <<>>
    /\ lastOp = NoOp
    /\ served = 0
    /\ procs = [p \in Racers |-> Idle]
    /\ basePrice = BasePrice
    /\ priceModifier = PriceModifier

Tick(points) ==
    /\ \E t \in points :
        /\ t > now
        /\ now' = t
    /\ lastOp' = Op("tick", NoUser, 0, "none", <<>>, "ok", NoTime, NoBooking)
    /\ UNCHANGED <<ledger, nextRowId, bookings, served, procs, prices>>

LockSeats(reqs) ==
    \E user \in Users, req \in reqs :
    \E f \in FirstChoices(ledger, req[1], req[2], Range(req[3])) :
        LET s == req[1]
            d == req[2]
            seats == req[3]
            run == lock_seats(f, s, d, seats, user, now)
            result == Response(ledger, run.sess, run.error)
        IN  /\ served < MaxRequests
            /\ served' = served + 1
            /\ ledger' = Committed(ledger, run.sess, nextRowId, result)
            /\ nextRowId' = NextRowId(ledger', nextRowId)
            /\ lastOp' = [Op("lock", user, s, d, seats, result,
                              IF result = "ok" THEN now + LOCK_TTL
                              ELSE NoTime,
                              NoBooking)
                          EXCEPT !.found = f]
            /\ UNCHANGED <<now, bookings, procs, prices>>

CreateBooking(reqs, repeats) ==
    \E user \in Users, req \in reqs, pnr \in PNRs(bookings, repeats) :
    \E f \in FirstChoices(ledger, req[1], req[2], Range(req[3]) \cap Seats) :
        LET s == req[1]
            d == req[2]
            seats == req[3]
            run == create_bus_booking(f, s, d, seats, user, pnr,
                                      Len(bookings) + 1, bookings)
            result == Response(ledger, run.sess, run.error)
        IN  /\ served < MaxRequests
            /\ served' = served + 1
            /\ ledger' = Committed(ledger, run.sess, nextRowId, result)
            /\ nextRowId' = NextRowId(ledger', nextRowId)
            /\ bookings' = CommittedBookings(bookings, run.booking, result)
            /\ lastOp' = [Op("book", user, s, d, seats, result, NoTime,
                              IF result = "ok" THEN run.booking.id
                              ELSE NoBooking)
                          EXCEPT !.pnr = pnr, !.found = f]
            /\ UNCHANGED <<now, procs, prices>>

CancelBooking ==
    \E user \in Users, id \in 1..(Len(bookings) + 1) :
    \E g \in ReleaseChoices(ledger, id,
                IF id \in DOMAIN bookings
                THEN {bookings[id].passengers[i].seat_id :
                        i \in DOMAIN bookings[id].passengers}
                ELSE {}) :
        LET run == cancel_bus_booking(g, bookings, id, user, now)
            result == Response(ledger, run.sess, run.error)
        IN  /\ served < MaxRequests
            /\ served' = served + 1
            /\ ledger' = Committed(ledger, run.sess, nextRowId, result)
            /\ bookings' = IF result = "ok"
                           THEN [bookings EXCEPT ![id] = run.booking]
                           ELSE bookings
            /\ lastOp' = [Op("cancel", user, 0, "none", <<>>, result,
                              NoTime, id)
                            EXCEPT !.refund_percentage = run.refund_percentage,
                                   !.found = g]
            /\ UNCHANGED <<now, nextRowId, procs, prices>>

GetSeatLayout(insts) ==
    \E inst \in insts :
        LET s == inst[1]
            d == inst[2]
            seats == IF s \in Schedules
                     THEN ActiveSeats(ScheduleBus[s])
                     ELSE {}
        IN  \E f \in FirstChoices(ledger, s, d, seats) :
            /\ served < MaxRequests
            /\ served' = served + 1
            /\ lastOp' = IF s \in Schedules
                         THEN [Op("seats", NoUser, s, d, <<>>, "ok", NoTime,
                                  NoBooking)
                               EXCEPT !.statuses = get_seat_layout(f, s, now),
                                      !.found = f]
                         ELSE Op("seats", NoUser, s, d, <<>>,
                                 "schedule_not_found", NoTime, NoBooking)
            /\ UNCHANGED <<now, ledger, nextRowId, bookings, procs, prices>>

Next ==
    \/ Tick(TimePoints)
    \/ LockSeats(SeatRequests)
    \/ CreateBooking(SeatRequests, FALSE)
    \/ CancelBooking

Spec == Init /\ [][Next]_vars

\* the clock at one-second resolution around a lock's expiry, with the seat
\* map read
NextClock ==
    \/ Tick(ClockPoints)
    \/ LockSeats(ClockRequests)
    \/ CreateBooking(ClockRequests, TRUE)
    \/ CancelBooking
    \/ GetSeatLayout({<<1, "d1">>})

SpecClock == Init /\ [][NextClock]_vars

\* the instants around the brackets of the refund ladder for schedule 1 on
\* d1: one second before, at, and one second after 24, 12 and 6 hours before
\* the departure, and one second after the departure
RefundPoints ==
    {JourneyDt(1, "d1") - h :
        h \in {24 * 3600 + 1, 24 * 3600, 24 * 3600 - 1,
               12 * 3600 + 1, 12 * 3600, 12 * 3600 - 1,
               6 * 3600 + 1, 6 * 3600, 6 * 3600 - 1, -1}}

\* a booking of seat 1, and a booking without passengers, whose amount is 0
RefundRequests == {<<1, "d1", l>> : l \in {<<1>>, <<>>}}

\* bookings cancelled at the instants of the refund ladder
NextRefund ==
    \/ Tick(RefundPoints)
    \/ CreateBooking(RefundRequests, FALSE)
    \/ CancelBooking

SpecRefund == Init /\ [][NextRefund]_vars

\* a row with status blocked: no handler writes that status, such a row is
\* put into the table from outside the router
BlockedRow == Row(1, 1, 2, "d1", "blocked", NoUser, NoTime, NoBooking)

\* the tables at the start, without or with seat 2 of schedule 1 blocked
InitSeatMap ==
    /\ now = 0
    /\ ledger \in {{}, {BlockedRow}}
    /\ nextRowId = 1 + Cardinality(ledger)
    /\ bookings = <<>>
    /\ lastOp = NoOp
    /\ served = 0
    /\ procs = [p \in Racers |-> Idle]
    /\ basePrice = BasePrice
    /\ priceModifier = PriceModifier

SearchBuses(insts) ==
    \E inst \in insts :
        /\ served < MaxRequests
        /\ served' = served + 1
        /\ lastOp' = [Op("search", NoUser, inst[1], inst[2], <<>>, "ok",
                          NoTime, NoBooking)
                      EXCEPT !.available_seats =
                                AvailableSeats(ledger, inst[1], inst[2], now)]
        /\ UNCHANGED <<now, ledger, nextRowId, bookings, procs, prices>>

SeatMapRequests == {<<1, "d1", l>> : l \in {<<1>>, <<2>>, <<1, 2>>}}

\* the writers with the two readers, on tables that may hold a blocked row
NextSeatMap ==
    \/ Tick(TimePoints)
    \/ LockSeats(SeatMapRequests)
    \/ CreateBooking(SeatMapRequests, FALSE)
    \/ CancelBooking
    \/ GetSeatLayout({<<1, "d1">>})
    \/ SearchBuses({<<1, "d1">>})

SpecSeatMap == InitSeatMap /\ [][NextSeatMap]_vars

\* requests that break an input constraint, next to one that breaks none:
\* an unknown seat id after or before a known one, an unknown schedule, no
\* seat, one seat twice, and a seat of another bus
InvalidRequests ==
    {<<1, "d1", l>> : l \in {<<1>>, <<1, NoSuchSeat>>, <<NoSuchSeat, 1>>,
                             <<>>, <<1, 1>>, <<3>>}}
    \cup {<<NoSuchSchedule, "d1", <<1>>>>}

NextInvalid ==
    \/ LockSeats(InvalidRequests)
    \/ CreateBooking(InvalidRequests, TRUE)
    \/ CancelBooking

SpecInvalid == Init /\ [][NextInvalid]_vars

\* the prices a seat or a schedule can be given
ModifierChoices == {5000, 7500}
BaseChoices == {50000, 60000}

PriceRequests == {<<1, "d1", l>> : l \in {<<1>>, <<1, 2>>}}

\* price_modifier of seat 1 or base_price of schedule 1 is given a new value
ChangePrice ==
    /\ \/ \E m \in ModifierChoices :
            /\ m # priceModifier[1]
            /\ priceModifier' = [priceModifier EXCEPT ![1] = m]
            /\ UNCHANGED basePrice
       \/ \E a \in BaseChoices :
            /\ a # basePrice[1]
            /\ basePrice' = [basePrice EXCEPT ![1] = a]
            /\ UNCHANGED priceModifier
    /\ lastOp' = Op("price", NoUser, 0, "none", <<>>, "ok", NoTime, NoBooking)
    /\ UNCHANGED <<now, ledger, nextRowId, bookings, served, procs>>

\* the requests with the prices changing between them
NextPrices ==
    \/ ChangePrice
    \/ LockSeats(PriceRequests)
    \/ CreateBooking(PriceRequests, FALSE)
    \/ CancelBooking

SpecPrices == Init /\ [][NextPrices]_vars

----------------------------------------------------------------------------
(* Concurrent requests: every racer runs lock_seats and then               *)
(* create_bus_booking for seat 1 of schedule 1 on d1, each in its own      *)
(* session.  A handler's queries and its commit are separate steps, and    *)
(* the steps of different requests interleave.                             *)

RaceSeats == <<1>>

\* uuid4 gives every booking its own id; its PNR draw is a new code
RaceId == ("u1" :> 1) @@ ("u2" :> 2) @@ ("u3" :> 3)

\* lock_seats up to db.commit(): the queries, the checks and the pending
\* writes
LockRead(p) ==
    /\ procs[p].pc = "start"
    /\ \E f \in FirstChoices(ledger, 1, "d1", Range(RaceSeats)) :
        LET run == lock_seats(f, 1, "d1", RaceSeats, p, now)
        IN  procs' = [procs EXCEPT ![p] =
                IF run.error = "ok"
                THEN Proc("lock_commit", run.sess, <<>>, "pending", "pending")
                ELSE Proc("done", EmptySession, <<>>, run.error, "pending")]
    /\ UNCHANGED <<now, ledger, nextRowId, bookings, lastOp, served, prices>>

\* db.commit() of lock_seats
LockCommit(p) ==
    /\ procs[p].pc = "lock_commit"
    /\ LET result == Response(ledger, procs[p].sess, "ok")
       IN  /\ ledger' = Committed(ledger, procs[p].sess, nextRowId, result)
           /\ nextRowId' = NextRowId(ledger', nextRowId)
           /\ procs' = [procs EXCEPT ![p] =
                    IF result = "ok"
                    THEN Proc("locked", EmptySession, <<>>, "ok", "pending")
                    ELSE Proc("done", EmptySession, <<>>, result, "pending")]
    /\ UNCHANGED <<now, bookings, lastOp, served, prices>>

\* create_bus_booking up to db.commit()
BookRead(p) ==
    /\ procs[p].pc = "locked"
    /\ \E f \in FirstChoices(ledger, 1, "d1", Range(RaceSeats)) :
        LET run == create_bus_booking(f, 1, "d1", RaceSeats, p,
                                      RaceId[p], RaceId[p], bookings)
        IN  procs' = [procs EXCEPT ![p] =
                IF run.error = "ok"
                THEN Proc("book_commit", run.sess, run.booking, "ok",
                          "pending")
                ELSE Proc("done", EmptySession, <<>>, "ok", run.error)]
    /\ UNCHANGED <<now, ledger, nextRowId, bookings, lastOp, served, prices>>

\* db.commit() of create_bus_booking
BookCommit(p) ==
    /\ procs[p].pc = "book_commit"
    /\ LET result == Response(ledger, procs[p].sess, "ok")
       IN  /\ ledger' = Committed(ledger, procs[p].sess, nextRowId, result)
           /\ nextRowId' = NextRowId(ledger', nextRowId)
           /\ bookings' = CommittedBookings(bookings, procs[p].booking, result)
           /\ procs' = [procs EXCEPT ![p] =
                    Proc("done", EmptySession, <<>>, "ok", result)]
    /\ UNCHANGED <<now, lastOp, served, prices>>

NextRace ==
    \/ \E p \in Racers : LockRead(p)
    \/ \E p \in Racers : LockCommit(p)
    \/ \E p \in Racers : BookRead(p)
    \/ \E p \in Racers : BookCommit(p)

SpecRace == Init /\ [][NextRace]_vars

----------------------------------------------------------------------------
(* Several journeys: schedules 1 and 2 run the same bus, and seat 1 is     *)
(* requested on schedule 1 for d1 and for d2 and on schedule 2 for d1.     *)

FrameRequests ==
    {<<1, "d1", <<1>>>>, <<1, "d2", <<1>>>>, <<2, "d1", <<1>>>>,
     <<1, "d1", <<2>>>>}

NextFrame ==
    \/ Tick(TimePoints)
    \/ LockSeats(FrameRequests)
    \/ CreateBooking(FrameRequests, FALSE)
    \/ CancelBooking

SpecFrame == Init /\ [][NextFrame]_vars

----------------------------------------------------------------------------
(* Concurrent cancellations: two cancel_bus_booking requests for booking 1, *)
(* both made by the booking's owner, each in its own session.  They are    *)
(* held in the slots u1 and u2 of procs.  The handler's queries and its    *)
(* commit are separate steps, and the steps of the two requests            *)
(* interleave.                                                             *)

CancelRacers == {"u1", "u2"}

CancelId == 1

\* cancel_bus_booking up to db.commit(): the lookup, the status checks, the
\* assignments to the booking and the pending deletes
CancelRead(p) ==
    /\ procs[p].pc = "start"
    /\ \E g \in ReleaseChoices(ledger, CancelId,
                    IF CancelId \in DOMAIN bookings
                    THEN {bookings[CancelId].passengers[i].seat_id :
                            i \in DOMAIN bookings[CancelId].passengers}
                    ELSE {}) :
        LET owner == IF CancelId \in DOMAIN bookings
                     THEN bookings[CancelId].user_id
                     ELSE NoUser
            run == cancel_bus_booking(g, bookings, CancelId, owner, now)
        IN  procs' = [procs EXCEPT ![p] =
                IF run.error = "ok"
                THEN Proc("cancel_commit", run.sess,
                          [loaded |-> bookings[CancelId],
                           cur |-> run.booking],
                          "pending", "pending")
                ELSE [Proc("done", EmptySession, <<>>, "pending", "pending")
                        EXCEPT !.cancelled = run.error]]
    /\ UNCHANGED <<now, ledger, nextRowId, bookings, lastOp, served, prices>>

\* db.commit() of cancel_bus_booking: the UPDATE of the booking writes the
\* columns the handler changed
CancelCommit(p) ==
    /\ procs[p].pc = "cancel_commit"
    /\ LET result == Response(ledger, procs[p].sess, "ok")
       IN  /\ ledger' = Committed(ledger, procs[p].sess, nextRowId, result)
           /\ bookings' = IF result = "ok"
                          THEN [bookings EXCEPT ![CancelId] =
                                    ApplyUpdate(@, procs[p].booking)]
                          ELSE bookings
           /\ procs' = [procs EXCEPT ![p] =
                    [Proc("done", EmptySession, <<>>, "pending", "pending")
                        EXCEPT !.cancelled = result]]
    /\ UNCHANGED <<now, nextRowId, lastOp, served, prices>>

NextCancelRace ==
    \/ Tick(TimePoints)
    \/ CreateBooking(PriceRequests, FALSE)
    \/ \E p \in CancelRacers : CancelRead(p)
    \/ \E p \in CancelRacers : CancelCommit(p)

SpecCancelRace == Init /\ [][NextCancelRace]_vars

----------------------------------------------------------------------------
(* Vocabulary of the properties *)

Confirmed(b) == b.booking_status = "confirmed"

SeatsOf(b) == {b.passengers[i].seat_id : i \in DOMAIN b.passengers}

\* The ledger is meant to hold one record per (schedule, seat, date).  A
\* seat is in a state when it has a record and each of its records is in
\* that state.
SeatIsBooked(rows, s, seat, d) ==
    /\ Match(rows, s, seat, d) # {}
    /\ \A r \in Match(rows, s, seat, d) : r.status = "booked"

SeatIsBlocked(rows, s, seat, d) ==
    /\ Match(rows, s, seat, d) # {}
    /\ \A r \in Match(rows, s, seat, d) : r.status = "blocked"

SeatIsHeldByOther(rows, s, seat, d, user, t) ==
    /\ Match(rows, s, seat, d) # {}
    /\ \A r \in Match(rows, s, seat, d) :
        r.status = "locked" /\ r.locked_by # user /\ t < r.locked_until

SeatHasExpiredLockOfOther(rows, s, seat, d, user, t) ==
    /\ Match(rows, s, seat, d) # {}
    /\ \A r \in Match(rows, s, seat, d) :
        r.status = "locked" /\ r.locked_by # user /\ t >= r.locked_until

\* the seat has a record held by user until the instant until
SeatIsLockedBy(rows, s, seat, d, user, until) ==
    \E r \in Match(rows, s, seat, d) :
        r.status = "locked" /\ r.locked_by = user /\ r.locked_until = until

\* the request of the step just taken
ReqSeats(op) == Range(op.seats)

----------------------------------------------------------------------------
(* C1 - mutual exclusion *)

\* C1: in every reachable state, for every (schedule, journey date, seat), at
\* most one confirmed booking has a passenger assigned to that seat.
C1_MutualExclusion ==
    \A i, j \in DOMAIN bookings :
        (/\ i # j
         /\ Confirmed(bookings[i]) /\ Confirmed(bookings[j])
         /\ bookings[i].schedule_id = bookings[j].schedule_id
         /\ bookings[i].journey_date = bookings[j].journey_date)
        => SeatsOf(bookings[i]) \cap SeatsOf(bookings[j]) = {}

----------------------------------------------------------------------------
(* C2 - createBooking against another user's lock *)

\* C2: a createBooking by user U that names a seat held by another user's
\* unexpired lock fails, leaves the ledger as it was (the seat stays locked
\* by that user) and creates no booking and no passenger.
C2_BookingRespectsLock ==
    [][(/\ lastOp'.op = "book"
        /\ \E seat \in ReqSeats(lastOp') :
            SeatIsHeldByOther(ledger, lastOp'.schedule_id, seat,
                              lastOp'.journey_date, lastOp'.user, now))
       => (/\ lastOp'.result # "ok"
           /\ ledger' = ledger
           /\ bookings' = bookings)]_vars

----------------------------------------------------------------------------
(* C3 - createBooking against a booked or blocked seat *)

\* C3: a createBooking that names a seat already booked by another booking,
\* or blocked, fails; no ledger record is changed (the booked seat keeps its
\* bookingId) and no booking or passenger is created.
C3_BookingConflictFails ==
    [][(/\ lastOp'.op = "book"
        /\ \E seat \in ReqSeats(lastOp') :
            \/ SeatIsBooked(ledger, lastOp'.schedule_id, seat,
                            lastOp'.journey_date)
            \/ SeatIsBlocked(ledger, lastOp'.schedule_id, seat,
                             lastOp'.journey_date))
       => (/\ lastOp'.result # "ok"
           /\ ledger' = ledger
           /\ bookings' = bookings)]_vars

----------------------------------------------------------------------------
(* C4 - lockSeats against a booked or held seat *)

\* C4: a lockSeats by user U that names a seat that is booked (by a booking
\* of any user, U included), or held by another user's unexpired lock,
\* returns an error.
C4_LockRefused ==
    [][(/\ lastOp'.op = "lock"
        /\ \E seat \in ReqSeats(lastOp') :
            \/ SeatIsBooked(ledger, lastOp'.schedule_id, seat,
                            lastOp'.journey_date)
            \/ SeatIsHeldByOther(ledger, lastOp'.schedule_id, seat,
                                 lastOp'.journey_date, lastOp'.user, now))
       => lastOp'.result \in {"seat_booked", "seat_locked"}]_vars

\* a lockSeats was refused on a seat booked by a booking of the caller
C4_Witness ==
    /\ lastOp.op = "lock"
    /\ lastOp.result = "seat_booked"
    /\ \E seat \in ReqSeats(lastOp), r \in ledger :
        /\ r \in Match(ledger, lastOp.schedule_id, seat, lastOp.journey_date)
        /\ SeatIsBooked(ledger, lastOp.schedule_id, seat,
                        lastOp.journey_date)
        /\ r.booking_id \in DOMAIN bookings
        /\ bookings[r.booking_id].user_id = lastOp.user

----------------------------------------------------------------------------
(* C5 - lockSeats is all-or-nothing *)

\* C5: every lockSeats either succeeds, and then every requested seat has a
\* record locked by the requester until the returned expiresAt, or returns
\* an error, and then the ledger is exactly as it was before the request.
C5_LockAllOrNothing ==
    [][lastOp'.op = "lock"
       => IF lastOp'.result = "ok"
          THEN \A seat \in ReqSeats(lastOp') :
                SeatIsLockedBy(ledger', lastOp'.schedule_id, seat,
                               lastOp'.journey_date, lastOp'.user,
                               lastOp'.expires_at)
          ELSE ledger' = ledger /\ nextRowId' = nextRowId]_vars

\* a lockSeats of two seats was refused on its second seat, and the first
\* seat has no record
C5_Witness ==
    /\ lastOp.op = "lock"
    /\ lastOp.result = "seat_booked"
    /\ Len(lastOp.seats) = 2
    /\ SeatIsBooked(ledger, lastOp.schedule_id, lastOp.seats[2],
                    lastOp.journey_date)
    /\ Match(ledger, lastOp.schedule_id, lastOp.seats[1],
             lastOp.journey_date) = {}

----------------------------------------------------------------------------
(* C6 - concurrent lock-then-book sequences *)

RaceDone == \A p \in Racers : procs[p].pc = "done"

\* C6: when every racer has run lockSeats and then createBooking for the
\* same seat, exactly one of them ended with a confirmed booking.
C6_OneBookingWins ==
    RaceDone => Cardinality({p \in Racers : procs[p].booked = "ok"}) = 1

----------------------------------------------------------------------------
(* C7 - concurrent lockSeats *)

\* C7: when concurrent lockSeats requests of different users for the same
\* available seat have all been answered, exactly one of them succeeded.
C7_OneLockWins ==
    (\A p \in Racers : procs[p].locked # "pending")
    => Cardinality({p \in Racers : procs[p].locked = "ok"}) = 1

----------------------------------------------------------------------------
(* C8 - ledger uniqueness *)

\* C8: in every reachable state the ledger holds at most one record per
\* (schedule id, seat id, journey date).
C8_LedgerUnique ==
    \A r1, r2 \in ledger :
        (/\ r1.schedule_id = r2.schedule_id
         /\ r1.seat_id = r2.seat_id
         /\ r1.journey_date = r2.journey_date)
        => r1 = r2

----------------------------------------------------------------------------
(* C9 - lock expiry as the seat map reports it *)

\* what the seat map must show for a seat whose records are all locks
C9_ReadHonoursExpiry ==
    (lastOp.op = "seats" /\ lastOp.result = "ok")
    => \A seat \in DOMAIN lastOp.statuses :
        LET rows == Match(ledger, lastOp.schedule_id, seat,
                          lastOp.journey_date)
        IN  (rows # {} /\ \A r \in rows : r.status = "locked")
            => /\ (\A r \in rows : now < r.locked_until)
                    => lastOp.statuses[seat] = "locked"
               /\ (\A r \in rows : now >= r.locked_until)
                    => lastOp.statuses[seat] = "available"

\* a lock taken at time T expires at T + LOCK_TTL
C9_LockSetsExpiry ==
    (lastOp'.op = "lock" /\ lastOp'.result = "ok")
    => /\ lastOp'.expires_at = now + LOCK_TTL
       /\ \A seat \in ReqSeats(lastOp') :
            SeatIsLockedBy(ledger', lastOp'.schedule_id, seat,
                           lastOp'.journey_date, lastOp'.user,
                           now + LOCK_TTL)

----------------------------------------------------------------------------
(* C10 - an expired lock on the write paths *)

\* no record of the seat stands against a lock by user at time t
SeatIsFreeFor(rows, s, seat, d, user, t) ==
    \A r \in Match(rows, s, seat, d) :
        r.status = "locked" /\ (r.locked_by = user \/ t >= r.locked_until)

C10_LockTakesExpired ==
    (/\ lastOp'.op = "lock"
     /\ \A seat \in ReqSeats(lastOp') :
            SeatIsFreeFor(ledger, lastOp'.schedule_id, seat,
                          lastOp'.journey_date, lastOp'.user, now))
    => /\ lastOp'.result = "ok"
       /\ \A seat \in ReqSeats(lastOp') :
            SeatHasExpiredLockOfOther(ledger, lastOp'.schedule_id, seat,
                                      lastOp'.journey_date, lastOp'.user, now)
            => \E r \in Match(ledger, lastOp'.schedule_id, seat,
                              lastOp'.journey_date) :
                \E w \in ledger' :
                    /\ w.id = r.id
                    /\ w.status = "locked"
                    /\ w.locked_by = lastOp'.user
                    /\ w.locked_until = now + LOCK_TTL

C10_BookTakesExpired ==
    (/\ lastOp'.op = "book"
     /\ \A i \in DOMAIN bookings : bookings[i].pnr # lastOp'.pnr
     /\ \E seat \in ReqSeats(lastOp') :
            SeatHasExpiredLockOfOther(ledger, lastOp'.schedule_id, seat,
                                      lastOp'.journey_date, lastOp'.user, now))
    => /\ lastOp'.result = "ok"
       /\ Len(bookings') = Len(bookings) + 1
       /\ Confirmed(bookings'[lastOp'.booking_id])
       /\ bookings'[lastOp'.booking_id].user_id = lastOp'.user

----------------------------------------------------------------------------
(* C11 - what a successful createBooking leaves behind *)

\* C11: after a successful createBooking whose seats were each available or
\* locked by the caller, there is a new confirmed booking with one passenger
\* per requested seat, in the order requested, and every requested seat has
\* a ledger record with status booked, bookingId the new booking's id, and
\* lockedBy and lockedUntil cleared.
C11_BookingCommitted ==
    [][(/\ lastOp'.op = "book"
        /\ lastOp'.result = "ok"
        /\ \A seat \in ReqSeats(lastOp') :
                SeatIsFreeFor(ledger, lastOp'.schedule_id, seat,
                              lastOp'.journey_date, lastOp'.user, now))
       => /\ Len(bookings') = Len(bookings) + 1
          /\ lastOp'.booking_id = Len(bookings')
          /\ LET b == bookings'[lastOp'.booking_id]
             IN  /\ Confirmed(b)
                 /\ b.id = lastOp'.booking_id
                 /\ \A i \in DOMAIN bookings : bookings[i].id # b.id
                 /\ Len(b.passengers) = Len(lastOp'.seats)
                 /\ \A i \in DOMAIN b.passengers :
                        b.passengers[i].seat_id = lastOp'.seats[i]
                 /\ \A seat \in ReqSeats(lastOp') :
                        \E r \in Match(ledger', lastOp'.schedule_id, seat,
                                       lastOp'.journey_date) :
                            /\ r.status = "booked"
                            /\ r.booking_id = b.id
                            /\ r.locked_by = NoUser
                            /\ r.locked_until = NoTime]_vars

\* a user has booked a seat they held under their own unexpired lock, and
\* the lock's record is now the booking's
C11_Witness ==
    /\ lastOp.op = "book"
    /\ lastOp.result = "ok"
    /\ \E seat \in ReqSeats(lastOp) :
        /\ lastOp.found[seat].status = "locked"
        /\ lastOp.found[seat].locked_by = lastOp.user
        /\ lastOp.found[seat].locked_until > now
        /\ \E r \in ledger :
            /\ r.id = lastOp.found[seat].id
            /\ r.status = "booked"
            /\ r.booking_id = lastOp.booking_id
            /\ r.locked_by = NoUser

----------------------------------------------------------------------------
(* C12 - a booked seat until its cancellation *)

\* C12: a ledger record that is booked with bookingId b stays booked with
\* bookingId b through every step that is not a successful cancelBooking(b):
\* no lockSeats and no createBooking changes its status or its bookingId.
C12_BookedIsTerminal ==
    [][\A r \in ledger :
        (/\ r.status = "booked"
         /\ ~(/\ lastOp'.op = "cancel"
              /\ lastOp'.result = "ok"
              /\ lastOp'.booking_id = r.booking_id))
        => \E w \in ledger' :
            /\ w.id = r.id
            /\ w.status = "booked"
            /\ w.booking_id = r.booking_id]_vars

----------------------------------------------------------------------------
(* C13 - cancellation releases the seats *)

\* C13: immediately after a successful cancelBooking, the seat map for the
\* booking's schedule and journey date reports every seat of the booking's
\* passengers available, and a lockSeats by any user for any of those seats
\* succeeds.
C13_CancelReleasesSeats ==
    [][(lastOp'.op = "cancel" /\ lastOp'.result = "ok")
       => LET b == bookings[lastOp'.booking_id]
              s == b.schedule_id
              d == b.journey_date
              onBus == ActiveSeats(ScheduleBus[s])
          IN  \A seat \in SeatsOf(b) :
                /\ \A f \in FirstChoices(ledger', s, d, onBus) :
                        get_seat_layout(f, s, now)[seat] = "available"
                /\ \A user \in Users :
                   \A f \in FirstChoices(ledger', s, d, {seat}) :
                        LET run == lock_seats(f, s, d, <<seat>>, user, now)
                        IN  Response(ledger', run.sess, run.error) = "ok"]_vars

----------------------------------------------------------------------------
(* C14 - the refund ladder *)

\* C14: with h the time from now to the departure, a successful
\* cancelBooking returns 90% when h > 24 hours, 50% when 12 < h <= 24, 25%
\* when 6 < h <= 12 and 0% when h < 6 (so exactly 24h and 24h-1s give 50,
\* exactly 12h and 12h-1s give 25, and 6h-1s gives 0).
C14_RefundLadder ==
    [][(lastOp'.op = "cancel" /\ lastOp'.result = "ok")
       => LET b == bookings[lastOp'.booking_id]
              h == JourneyDt(b.schedule_id, b.journey_date) - now
              pct == lastOp'.refund_percentage
          IN  /\ h > 24 * 3600 => pct = 90
              /\ (12 * 3600 < h /\ h <= 24 * 3600) => pct = 50
              /\ (6 * 3600 < h /\ h <= 12 * 3600) => pct = 25
              /\ h < 6 * 3600 => pct = 0]_vars

\* a booking was cancelled exactly 24 hours before its departure at 50%
C14_Witness ==
    /\ lastOp.op = "cancel"
    /\ lastOp.result = "ok"
    /\ lastOp.refund_percentage = 50
    /\ JourneyDt(bookings[lastOp.booking_id].schedule_id,
                 bookings[lastOp.booking_id].journey_date) - now = 24 * 3600

----------------------------------------------------------------------------
(* C15 - the refund recorded *)

\* C15: on a successful cancelBooking the recorded refundAmount equals
\* finalAmount * refundPercentage / 100, and refundStatus is processed
\* exactly when refundAmount > 0 and no_refund otherwise.
C15_RefundRecorded ==
    [][(lastOp'.op = "cancel" /\ lastOp'.result = "ok")
       => LET b == bookings'[lastOp'.booking_id]
          IN  /\ b.refund_amount * 100
                    = b.final_amount * lastOp'.refund_percentage
              /\ b.final_amount = bookings[lastOp'.booking_id].final_amount
              /\ b.refund_status =
                    IF b.refund_amount > 0 THEN "processed" ELSE "no_refund"]_vars

\* a booking of 550.00 was cancelled at 25% with a refund of 137.50
C15_Witness ==
    /\ lastOp.op = "cancel"
    /\ lastOp.result = "ok"
    /\ lastOp.refund_percentage = 25
    /\ bookings[lastOp.booking_id].final_amount = 55000
    /\ bookings[lastOp.booking_id].refund_amount = 13750
    /\ bookings[lastOp.booking_id].refund_status = "processed"

----------------------------------------------------------------------------
(* C16 - cancelBooking by a user who is not the owner *)

\* C16: a cancelBooking by a user who is not the booking's owner fails with
\* NotFound and changes nothing: the booking keeps its status and refund
\* fields and its seats stay booked.
C16_CancelByOtherUser ==
    [][(/\ lastOp'.op = "cancel"
        /\ lastOp'.booking_id \in DOMAIN bookings
        /\ bookings[lastOp'.booking_id].user_id # lastOp'.user)
       => /\ lastOp'.result = "booking_not_found"
          /\ bookings' = bookings
          /\ ledger' = ledger]_vars

\* a user was refused the cancellation of another user's confirmed booking,
\* whose seat is booked
C16_Witness ==
    /\ lastOp.op = "cancel"
    /\ lastOp.result = "booking_not_found"
    /\ lastOp.booking_id \in DOMAIN bookings
    /\ LET b == bookings[lastOp.booking_id]
       IN  /\ b.user_id # lastOp.user
           /\ Confirmed(b)
           /\ \E seat \in SeatsOf(b) :
                SeatIsBooked(ledger, b.schedule_id, seat, b.journey_date)

----------------------------------------------------------------------------
(* C17 - cancelBooking of a booking that is not confirmed *)

\* C17: a cancelBooking by the owner of a booking whose status is cancelled
\* or completed fails with InvalidState and changes nothing: cancelledAt,
\* refundAmount and refundStatus keep their values and no ledger record is
\* deleted.
C17_CancelTwice ==
    [][(/\ lastOp'.op = "cancel"
        /\ lastOp'.booking_id \in DOMAIN bookings
        /\ bookings[lastOp'.booking_id].user_id = lastOp'.user
        /\ bookings[lastOp'.booking_id].booking_status
                \in {"cancelled", "completed"})
       => /\ lastOp'.result \in {"already_cancelled", "journey_completed"}
          /\ bookings' = bookings
          /\ ledger' = ledger]_vars

\* the owner was refused a second cancellation, at a later time, of a
\* booking cancelled with a refund
C17_Witness ==
    /\ lastOp.op = "cancel"
    /\ lastOp.result = "already_cancelled"
    /\ LET b == bookings[lastOp.booking_id]
       IN  /\ b.booking_status = "cancelled"
           /\ b.refund_status = "processed"
           /\ b.cancelled_at < now

----------------------------------------------------------------------------
(* C18 - booking pricing *)

RECURSIVE PassengerTotal(_, _)
PassengerTotal(passengers, i) ==
    IF i > Len(passengers) THEN 0
    ELSE passengers[i].seat_price + PassengerTotal(passengers, i + 1)

\* every booking's total is the sum of its passengers' seat prices and its
\* final amount is the total minus the discount
C18_TotalsAddUp ==
    \A i \in DOMAIN bookings :
        /\ bookings[i].total_amount = PassengerTotal(bookings[i].passengers, 1)
        /\ bookings[i].final_amount
                = bookings[i].total_amount - bookings[i].discount_amount

\* a new booking's passengers carry the prices in force when it is made
C18_PriceAtBookingTime ==
    (lastOp'.op = "book" /\ lastOp'.result = "ok")
    => LET b == bookings'[lastOp'.booking_id]
       IN  \A i \in DOMAIN b.passengers :
            b.passengers[i].seat_price
                = basePrice[b.schedule_id]
                    + priceModifier[b.passengers[i].seat_id]

\* C18: for every booking, each passenger's seatPrice equals the schedule
\* base price plus the seat's price modifier at booking time, totalAmount
\* equals the sum of its passengers' seatPrice, and finalAmount equals
\* totalAmount minus discountAmount.
C18_BookingPricing == []C18_TotalsAddUp /\ [][C18_PriceAtBookingTime]_vars

\* two seats were booked after the modifier of seat 1 was raised to 75.00:
\* 575.00 and 500.00, 1075.00 in total
C18_Witness ==
    /\ lastOp.op = "book"
    /\ lastOp.result = "ok"
    /\ priceModifier[1] = 7500
    /\ LET b == bookings[lastOp.booking_id]
       IN  /\ Len(b.passengers) = 2
           /\ b.passengers[1].seat_price = 57500
           /\ b.passengers[2].seat_price = 50000
           /\ b.final_amount = 107500

----------------------------------------------------------------------------
(* C19 - passenger records are immutable *)

\* C19: no later step (lockSeats, createBooking, cancelBooking, or a change
\* of a seat's price modifier or a schedule's base price) changes an
\* existing passenger's seat assignment or its snapshotted seatPrice.
C19_PassengersImmutable ==
    [][\A i \in DOMAIN bookings :
        /\ i \in DOMAIN bookings'
        /\ bookings'[i].passengers = bookings[i].passengers]_vars

\* the prices were changed after a booking was made and then cancelled, and
\* the booking's passenger still carries the price it was booked at
C19_Witness ==
    /\ lastOp.op = "price"
    /\ \E i \in DOMAIN bookings :
        /\ bookings[i].booking_status = "cancelled"
        /\ bookings[i].passengers # <<>>
        /\ \A k \in DOMAIN bookings[i].passengers :
            bookings[i].passengers[k].seat_price
                # basePrice[bookings[i].schedule_id]
                    + priceModifier[bookings[i].passengers[k].seat_id]

----------------------------------------------------------------------------
(* C20 - PNR uniqueness *)

\* C20: in every reachable state no two bookings, confirmed or cancelled,
\* carry the same PNR, whatever the PNR generator draws.
C20_PnrUnique ==
    \A i, j \in DOMAIN bookings :
        bookings[i].pnr = bookings[j].pnr => i = j

\* a createBooking drew the PNR of a cancelled booking and was refused
C20_Witness ==
    /\ lastOp.op = "book"
    /\ lastOp.result = "integrity_error"
    /\ \E i \in DOMAIN bookings :
        /\ bookings[i].pnr = lastOp.pnr
        /\ bookings[i].booking_status = "cancelled"

----------------------------------------------------------------------------
(* C21 - well-formed ledger records *)

\* C21: in every reachable state every ledger record with status booked has
\* a non-null bookingId, and every ledger record with status locked has a
\* non-null lockedBy and a non-null lockedUntil.
C21_RecordsWellFormed ==
    \A r \in ledger :
        /\ r.status = "booked" => r.booking_id # NoBooking
        /\ r.status = "locked"
            => r.locked_by # NoUser /\ r.locked_until # NoTime

\* a lock's record was turned into a booking's record while another seat is
\* locked
C21_Witness ==
    /\ lastOp.op = "book"
    /\ lastOp.result = "ok"
    /\ \E seat \in ReqSeats(lastOp) :
        /\ lastOp.found[seat].status = "locked"
        /\ \E r \in ledger :
            r.id = lastOp.found[seat].id /\ r.status = "booked"
    /\ \E r \in ledger : r.status = "locked"

----------------------------------------------------------------------------
(* C22 - lockSeats against a blocked seat *)

\* C22: a lockSeats that names a seat whose ledger record is blocked fails
\* with SeatUnavailable, and the record stays blocked.
C22_LockRefusedOnBlocked ==
    [][(/\ lastOp'.op = "lock"
        /\ \E seat \in ReqSeats(lastOp') :
            SeatIsBlocked(ledger, lastOp'.schedule_id, seat,
                          lastOp'.journey_date))
       => /\ lastOp'.result \in {"seat_booked", "seat_locked"}
          /\ ledger' = ledger]_vars

----------------------------------------------------------------------------
(* C28 - the statuses of the seat map *)

\* what the seat map must hold: one entry per active seat of the bus, each
\* derived from the seat's records
C28_StatusDerived ==
    (lastOp.op = "seats" /\ lastOp.result = "ok")
    => /\ DOMAIN lastOp.statuses
            = ActiveSeats(ScheduleBus[lastOp.schedule_id])
       /\ \A seat \in DOMAIN lastOp.statuses :
            LET rows == Match(ledger, lastOp.schedule_id, seat,
                              lastOp.journey_date)
                status == lastOp.statuses[seat]
            IN  /\ rows = {} => status = "available"
                /\ SeatIsBooked(ledger, lastOp.schedule_id, seat,
                                lastOp.journey_date) => status = "booked"
                /\ SeatIsBlocked(ledger, lastOp.schedule_id, seat,
                                 lastOp.journey_date) => status = "blocked"
                /\ (rows # {} /\ \A r \in rows :
                        r.status = "locked" /\ now < r.locked_until)
                    => status = "locked"

\* the read writes nothing
C28_ReadOnly == lastOp'.op = "seats" => ledger' = ledger

----------------------------------------------------------------------------
(* C29 - the available-seat count of the schedule search *)

\* C29: when no seat is blocked and every seat has at most one record, the
\* available-seat count of the schedule search equals the number of seats
\* the seat map reports available, a seat whose record is a lock with
\* lockedUntil <= now counting as available.
C29_SearchHonoursExpiry ==
    (/\ lastOp.op = "search"
     /\ C8_LedgerUnique
     /\ \A r \in ledger : r.status # "blocked")
    => LET s == lastOp.schedule_id
           d == lastOp.journey_date
       IN  \A f \in FirstChoices(ledger, s, d, ActiveSeats(ScheduleBus[s])) :
            lastOp.available_seats
                = Cardinality({seat \in ActiveSeats(ScheduleBus[s]) :
                    get_seat_layout(f, s, now)[seat] = "available"})

----------------------------------------------------------------------------
(* C23 - re-entrant extension of a lock *)

\* the seat's records are all unexpired locks of user
SeatIsHeldBy(rows, s, seat, d, user, t) ==
    /\ Match(rows, s, seat, d) # {}
    /\ \A r \in Match(rows, s, seat, d) :
        r.status = "locked" /\ r.locked_by = user /\ t < r.locked_until

----------------------------------------------------------------------------
(* C24 - a failed createBooking leaves nothing behind *)

\* C24: when createBooking fails for any reason (unknown schedule, a
\* passenger seat id that does not exist at any position of the list, or a
\* duplicate PNR rejected by the storage layer), the committed state has no
\* new booking, no new passenger and no changed or new ledger record.
C24_FailedBookingWritesNothing ==
    [][(lastOp'.op = "book" /\ lastOp'.result # "ok")
       => /\ bookings' = bookings
          /\ ledger' = ledger]_vars

\* a createBooking drew the PNR of an existing booking and was rejected by
\* the unique index
C24_Witness ==
    /\ lastOp.op = "book"
    /\ lastOp.result = "integrity_error"
    /\ lastOp.seats = <<1>>
    /\ \E i \in DOMAIN bookings : bookings[i].pnr = lastOp.pnr
    /\ ledger # {}

----------------------------------------------------------------------------
(* C25 - createBooking without passengers or with a seat named twice *)

\* C25: createBooking rejects a request whose passenger list is empty or
\* in which a seat id appears for more than one passenger, and creates no
\* booking, no passenger and no ledger record.
C25_BookingRejectsEmptyOrRepeated ==
    [][(/\ lastOp'.op = "book"
        /\ \/ lastOp'.seats = <<>>
           \/ \E i, j \in DOMAIN lastOp'.seats :
                i # j /\ lastOp'.seats[i] = lastOp'.seats[j])
       => /\ lastOp'.result # "ok"
          /\ bookings' = bookings
          /\ ledger' = ledger]_vars

----------------------------------------------------------------------------
(* C26 - createBooking for a seat of another bus *)

\* C26: createBooking rejects a request in which a passenger's seat exists
\* but belongs to a bus other than the schedule's; no booking and no ledger
\* record for that seat under the schedule is created.
C26_BookingRejectsForeignSeat ==
    [][(/\ lastOp'.op = "book"
        /\ lastOp'.schedule_id \in Schedules
        /\ \E seat \in ReqSeats(lastOp') \cap Seats :
            SeatBus[seat] # ScheduleBus[lastOp'.schedule_id])
       => /\ lastOp'.result # "ok"
          /\ bookings' = bookings
          /\ ledger' = ledger]_vars

----------------------------------------------------------------------------
(* C27 - lockSeats with an invalid request *)

\* C27: lockSeats rejects a request whose seatIds list is empty, or that
\* names a seat not belonging to the bus of the schedule, or a schedule
\* that does not exist, and creates no ledger record.
C27_LockRejectsInvalid ==
    [][(/\ lastOp'.op = "lock"
        /\ \/ lastOp'.seats = <<>>
           \/ lastOp'.schedule_id \notin Schedules
           \/ \E seat \in ReqSeats(lastOp') :
                \/ seat \notin Seats
                \/ SeatBus[seat] # ScheduleBus[lastOp'.schedule_id])
       => /\ lastOp'.result # "ok"
          /\ ledger' = ledger]_vars

----------------------------------------------------------------------------
(* C30 - the lifecycle of a booking *)

\* C30: a booking, once created, is never deleted; its status changes only
\* from confirmed to cancelled, only through a successful cancelBooking by
\* its owner; and once cancelled its status, cancelledAt, refundAmount and
\* refundStatus never change again.
C30_BookingLifecycle ==
    [][\A i \in DOMAIN bookings :
        /\ i \in DOMAIN bookings'
        /\ bookings'[i].id = bookings[i].id
        /\ bookings'[i].booking_status # bookings[i].booking_status
            => /\ bookings[i].booking_status = "confirmed"
               /\ bookings'[i].booking_status = "cancelled"
               /\ lastOp'.op = "cancel"
               /\ lastOp'.result = "ok"
               /\ lastOp'.booking_id = i
               /\ lastOp'.user = bookings[i].user_id
        /\ bookings[i].booking_status = "cancelled"
            => /\ bookings'[i].booking_status = "cancelled"
               /\ bookings'[i].cancelled_at = bookings[i].cancelled_at
               /\ bookings'[i].refund_amount = bookings[i].refund_amount
               /\ bookings'[i].refund_status = bookings[i].refund_status]_vars

\* the seat of a cancelled booking was booked again, and the cancelled
\* booking is still there
C30_Witness ==
    /\ lastOp.op = "book"
    /\ lastOp.result = "ok"
    /\ \E i \in DOMAIN bookings :
        /\ bookings[i].booking_status = "cancelled"
        /\ bookings[i].refund_status = "processed"
        /\ SeatsOf(bookings[i]) \cap SeatsOf(bookings[lastOp.booking_id]) # {}

----------------------------------------------------------------------------
(* C31 - every confirmed booking holds its seats in the ledger *)

\* C31: in every reachable state, for every confirmed booking and every
\* passenger of it, the ledger holds a record for (the booking's schedule,
\* the passenger's seat, the booking's journey date) with status booked and
\* bookingId equal to the booking's id.
C31_BookingHoldsSeats ==
    \A i \in DOMAIN bookings :
        Confirmed(bookings[i])
        => \A seat \in SeatsOf(bookings[i]) :
            \E r \in Match(ledger, bookings[i].schedule_id, seat,
                           bookings[i].journey_date) :
                r.status = "booked" /\ r.booking_id = bookings[i].id

----------------------------------------------------------------------------
(* C33 - cancelling exactly 6 hours before the departure *)

\* C33: a cancelBooking exactly 6 hours before the departure yields a
\* refund of 25%.
C33_SixHoursGives25 ==
    [][(/\ lastOp'.op = "cancel"
        /\ lastOp'.result = "ok"
        /\ JourneyDt(bookings[lastOp'.booking_id].schedule_id,
                     bookings[lastOp'.booking_id].journey_date) - now
                = 6 * 3600)
       => lastOp'.refund_percentage = 25]_vars

----------------------------------------------------------------------------
(* C34 - a PNR draw that repeats an existing PNR *)

\* C34: when the PNR drawn equals the PNR of an existing booking,
\* createBooking draws another code and the booking still succeeds: a valid
\* createBooking never fails because of a PNR collision.
C34_PnrCollisionRetried ==
    [][(/\ lastOp'.op = "book"
        /\ lastOp'.schedule_id \in Schedules
        /\ ReqSeats(lastOp') \subseteq Seats
        /\ \E i \in DOMAIN bookings : bookings[i].pnr = lastOp'.pnr)
       => /\ lastOp'.result = "ok"
          /\ Len(bookings') = Len(bookings) + 1]_vars

----------------------------------------------------------------------------
(* C32 - what lockSeats and createBooking leave alone *)

\* C32: a lockSeats or createBooking for seats on (S, D) changes only the
\* ledger records keyed (S, a seat of the request, D): the records of the
\* same seat on another date, of the same seat on another schedule of the
\* same bus and of every seat the request does not name are unchanged, and
\* lockSeats creates and changes no booking and no passenger.
C32_LockAndBookFrame ==
    [][lastOp'.op \in {"lock", "book"}
       => /\ {r \in ledger :
                ~(/\ r.schedule_id = lastOp'.schedule_id
                  /\ r.journey_date = lastOp'.journey_date
                  /\ r.seat_id \in ReqSeats(lastOp'))}
             = {r \in ledger' :
                ~(/\ r.schedule_id = lastOp'.schedule_id
                  /\ r.journey_date = lastOp'.journey_date
                  /\ r.seat_id \in ReqSeats(lastOp'))}
          /\ (lastOp'.op = "lock" => bookings' = bookings)]_vars

\* seat 1 was booked on schedule 1 for d2 while it is locked on schedule 1
\* for d1 and on schedule 2, which runs the same bus, for d1
C32_Witness ==
    /\ lastOp.op = "book"
    /\ lastOp.result = "ok"
    /\ lastOp.schedule_id = 1
    /\ lastOp.journey_date = "d2"
    /\ lastOp.seats = <<1>>
    /\ ScheduleBus[2] = ScheduleBus[1]
    /\ \E r \in Match(ledger, 1, 1, "d2") :
            r.status = "booked" /\ r.booking_id = lastOp.booking_id
    /\ \E r \in Match(ledger, 1, 1, "d1") : r.status = "locked"
    /\ \E r \in Match(ledger, 2, 1, "d1") : r.status = "locked"

----------------------------------------------------------------------------
(* C35 - every booked record belongs to a confirmed booking *)

\* C35: in every state reached by lockSeats, createBooking and
\* cancelBooking calls made one after the other, every ledger record with
\* status booked has a bookingId that refers to an existing confirmed
\* booking on the record's schedule and journey date with a passenger on
\* the record's seat; no seat stays booked on behalf of a cancelled booking.
C35_BookedHasConfirmedBooking ==
    \A r \in ledger :
        r.status = "booked"
        => /\ r.booking_id \in DOMAIN bookings
           /\ Confirmed(bookings[r.booking_id])
           /\ bookings[r.booking_id].schedule_id = r.schedule_id
           /\ bookings[r.booking_id].journey_date = r.journey_date
           /\ r.seat_id \in SeatsOf(bookings[r.booking_id])

----------------------------------------------------------------------------
(* C36 - what cancelBooking leaves alone *)

\* C36: cancelBooking(b) deletes only ledger records whose bookingId is b
\* and whose seat is a seat of one of b's passengers: every other ledger
\* record, every other booking and every passenger is unchanged; a refused
\* cancelBooking changes nothing.
C36_CancelFrame ==
    [][lastOp'.op = "cancel"
       => /\ ledger' \subseteq ledger
          /\ \A r \in ledger \ ledger' :
                /\ lastOp'.result = "ok"
                /\ r.booking_id = lastOp'.booking_id
                /\ r.seat_id \in SeatsOf(bookings[lastOp'.booking_id])
          /\ DOMAIN bookings' = DOMAIN bookings
          /\ \A i \in DOMAIN bookings :
                /\ bookings'[i].passengers = bookings[i].passengers
                /\ (i # lastOp'.booking_id \/ lastOp'.result # "ok")
                   => bookings'[i] = bookings[i]]_vars

\* a booking of seat 1 was cancelled and its record is gone, while the
\* records of seat 1 for another journey and the booking that holds one of
\* them are still there
C36_Witness ==
    /\ lastOp.op = "cancel"
    /\ lastOp.result = "ok"
    /\ SeatsOf(bookings[lastOp.booking_id]) = {1}
    /\ \A r \in ledger : r.booking_id # lastOp.booking_id
    /\ lastOp.found[1] # NoRow
    /\ \E r \in ledger, i \in DOMAIN bookings :
            /\ i # lastOp.booking_id
            /\ Confirmed(bookings[i])
            /\ r.status = "booked"
            /\ r.booking_id = i
            /\ r.seat_id = 1
            /\ <<r.schedule_id, r.journey_date>>
                    # <<bookings[lastOp.booking_id].schedule_id,
                        bookings[lastOp.booking_id].journey_date>>

----------------------------------------------------------------------------
(* C37 - cancelling after the departure *)

\* C37: there is no departure cut-off: a cancelBooking by the owner of a
\* confirmed booking whose departure is in the past succeeds with refund
\* percentage 0, refundAmount 0, refundStatus no_refund and status
\* cancelled, and the ledger records held for the booking are deleted.
C37_CancelAfterDeparture ==
    [][(/\ lastOp'.op = "cancel"
        /\ lastOp'.booking_id \in DOMAIN bookings
        /\ Confirmed(bookings[lastOp'.booking_id])
        /\ bookings[lastOp'.booking_id].user_id = lastOp'.user
        /\ JourneyDt(bookings[lastOp'.booking_id].schedule_id,
                     bookings[lastOp'.booking_id].journey_date) < now)
       => /\ lastOp'.result = "ok"
          /\ lastOp'.refund_percentage = 0
          /\ bookings'[lastOp'.booking_id].refund_amount = 0
          /\ bookings'[lastOp'.booking_id].refund_status = "no_refund"
          /\ bookings'[lastOp'.booking_id].booking_status = "cancelled"
          /\ \A r \in ledger' : r.booking_id # lastOp'.booking_id]_vars

\* a booking that held seat 1 was cancelled after its bus had departed
C37_Witness ==
    /\ lastOp.op = "cancel"
    /\ lastOp.result = "ok"
    /\ JourneyDt(bookings[lastOp.booking_id].schedule_id,
                 bookings[lastOp.booking_id].journey_date) < now
    /\ SeatsOf(bookings[lastOp.booking_id]) = {1}
    /\ lastOp.found[1] # NoRow
    /\ bookings[lastOp.booking_id].booking_status = "cancelled"
    /\ bookings[lastOp.booking_id].refund_status = "no_refund"
    /\ bookings[lastOp.booking_id].cancelled_at = now
    /\ \A r \in ledger : r.booking_id # lastOp.booking_id

----------------------------------------------------------------------------
(* C38 - two concurrent cancellations of one booking *)

\* C38: when the owner's two concurrent cancelBooking requests for the same
\* confirmed booking have both been answered, however their status checks
\* and writes interleaved, exactly one of them has succeeded and the other
\* has been refused as InvalidState (the booking is already cancelled).
C38_OneCancelWins ==
    (\A p \in CancelRacers :
        /\ procs[p].pc = "done"
        /\ procs[p].cancelled # "booking_not_found")
    => \E p \in CancelRacers :
        /\ procs[p].cancelled = "ok"
        /\ \A q \in CancelRacers \ {p} :
                procs[q].cancelled = "already_cancelled"

====
